---- MODULE Spec2Model ----
(***************************************************************************)
(* Model of AuthorizedClient (src/src/authorized_client.rs): the shared    *)
(* Credentials record behind a tokio RwLock, ensure_authenticated,         *)
(* force_refresh_authentication, refresh_authentication, get_bearer_token  *)
(* and the retry loop of AuthorizedClient::request.                        *)
(*                                                                         *)
(* Each member of Requests is one call of AuthorizedClient::request on the *)
(* same (cloned) client; the calls run concurrently on the tokio runtime.  *)
(* Time is the value Instant::now() returns; it never decreases and may    *)
(* stay the same between two reads.                                        *)
(***************************************************************************)
EXTENDS Integers, Sequences, FiniteSets, TLC

\* ------------------------------------------------------------------ bounds
NumRequests == 2      \* concurrent calls of request() on one client
MaxTime == 1          \* Instant::now() ranges over 0..MaxTime
MaxTTL == 1           \* expires_in of a token response ranges over 0..MaxTTL
Max401 == 4           \* 401 answers the protected endpoint gives, all calls together

\* --------------------------------------------------------------- constants
MAX_RETRY_COUNT == 3
BACKOFF_MS == 500
InstantMax == 1000    \* largest representable Instant (checked_add overflows past it)

Requests == 1..NumRequests
NoOne == 0            \* no write guard alive
None == -1            \* a local that is not (yet) bound; Option::None

\* Access tokens.  Every exchange issues a token of its own: the k-th exchange
\* of request r issues <<r, k>>, connect() issued ConnectToken.
IssuedToken(r, k) == <<r, k>>
ConnectToken == <<0, 1>>
NoToken == <<0, 0>>
NoCreds == [access_token |-> NoToken, expires_at |-> None]
HugeTTL == InstantMax + 1
OK == 200
UNAUTHORIZED == 401
Statuses == {OK, UNAUTHORIZED, 500}

\* What the token endpoint may answer to one client-credentials exchange:
\* a failed exchange, or a token response whose expires_in is absent (None),
\* an ordinary duration, or a duration too long for Instant.
TokenResponses ==
    {[ok |-> FALSE, expires_in |-> None]}
    \cup {[ok |-> TRUE, expires_in |-> t] : t \in (0..MaxTTL) \cup {None, HugeTTL}}

\* What http_client.execute and the response handler may produce.
HttpResponses ==
    {[sent |-> FALSE, status |-> None, handler_ok |-> FALSE]}
    \cup {[sent |-> TRUE, status |-> s, handler_ok |-> h] :
            s \in Statuses, h \in BOOLEAN}

FetchErrors == {"ExchangeFailed", "MissingExpiry", "ExpiryOverflow"}

VARIABLES
    now,                    \* Instant::now()
    credentials,            \* the shared record: [access_token, expires_at]
    expires_src,            \* history: the token issued with credentials.expires_at
    writer,                 \* holder of the RwLock write guard, or NoOne
    readers,                \* holders of RwLock read guards
    waitq,                  \* tasks queued on the RwLock, first in first out
    pc,                     \* where each request() call is
    unauthorized_retries,   \* the loop-local counter of each call (None before line 223)
    header,                 \* token in the Authorization header of the request in flight
    result,                 \* Credentials returned by get_bearer_token, not yet stored
    outcome,                \* what the call returned ("None" while running)
    lastStatus,             \* history: status of the latest response of the call
    sends,                  \* history: http_client.execute calls of the call
    slept,                  \* history: the backoff sleeps of the call, in ms
    fetches,                \* history: token exchanges issued by the call
    refreshStart,           \* history: Instant at which the refresh in progress began
    fetchedTtl,             \* history: expires_in of the refresh in progress
    startTok,               \* history: stored token at the call's start, if it was expired
    staleTok,               \* history: stored token as the call's force refresh began
    forced                  \* history: force refreshes of the call that stored a token

vars == <<now, credentials, expires_src, writer, readers, waitq, pc,
          unauthorized_retries, header, result, outcome, lastStatus, sends, slept,
          fetches, refreshStart, fetchedTtl, startTok, staleTok, forced>>

lockVars == <<writer, readers, waitq>>
storeVars == <<credentials, expires_src>>
histVars == <<lastStatus, sends, slept, fetches, refreshStart, fetchedTtl, startTok,
              staleTok, forced>>

\* ----------------------------------------------------------- pure helpers

\* Instant::checked_add: None when the sum is not representable.
CheckedAdd(instant, duration) ==
    IF instant + duration > InstantMax THEN None ELSE instant + duration

\* expires_in stored as it came, not added to Instant::now().
GetBearerTokenRelative(resp, tok, t) ==
    IF ~resp.ok THEN [err |-> "ExchangeFailed", creds |-> NoCreds]
    ELSE IF resp.expires_in = None THEN [err |-> "MissingExpiry", creds |-> NoCreds]
    ELSE IF CheckedAdd(t, resp.expires_in) = None
         THEN [err |-> "ExpiryOverflow", creds |-> NoCreds]
    ELSE [err |-> "None",
          creds |-> [access_token |-> tok, expires_at |-> resp.expires_in]]

\* get_bearer_token, lines 73-94: the exchange, then expires_at = now + expires_in.
\* (Lines 57-62 parse the same token_url connect() parsed, so they succeed.)
\* tok is the access token the server issued, t the value of Instant::now().
GetBearerToken(resp, tok, t) ==
    IF ~resp.ok THEN [err |-> "ExchangeFailed", creds |-> NoCreds]
    ELSE IF resp.expires_in = None THEN [err |-> "MissingExpiry", creds |-> NoCreds]
    ELSE IF CheckedAdd(t, resp.expires_in) = None
         THEN [err |-> "ExpiryOverflow", creds |-> NoCreds]
    ELSE [err |-> "None",
          creds |-> [access_token |-> tok,
                     expires_at |-> CheckedAdd(t, resp.expires_in)]]

\* An expiry test with a grace period on the wrong side.
ExpiredSloppy(creds, t) == creds.expires_at + 1 < t

\* An expiry test that takes the very instant of expiry for expired.
ExpiredInclusive(creds, t) == creds.expires_at <= t

\* The expiry test of ensure_authenticated (lines 165 and 172).
Expired(creds, t) == creds.expires_at < t

\* A doubling backoff in place of the linear one.
SleepDurationDoubling(k) == BACKOFF_MS * (2 ^ (k - 1))

\* line 259: the backoff before retry number k.
SleepDuration(k) == BACKOFF_MS * k

\* line 258: whether retry number k is preceded by a sleep.
NeedsSleep(k) == k > 1

\* The budget test off by one the other way: the third retry is refused.
ExhaustedEarly(k) == k >= MAX_RETRY_COUNT - 1

\* The budget test off by one: a fourth retry is let through.
ExhaustedLate(k) == k > MAX_RETRY_COUNT

\* Every status but 401 taken for a success.
StatusArmLenient(status) ==
    IF status = UNAUTHORIZED THEN "unauthorized" ELSE "ok"

\* Every status but 200 answered by a refresh and a retry.
StatusArmRetryAll(status) ==
    IF status = OK THEN "ok" ELSE "unauthorized"

\* lines 242-269: the arm of the match on response.status().
StatusArm(status) ==
    IF status = OK THEN "ok"
    ELSE IF status = UNAUTHORIZED THEN "unauthorized"
    ELSE "other"

\* line 246: the retry budget is used up.
Exhausted(k) == k = MAX_RETRY_COUNT

\* -------------------------------------------------------------- the RwLock
\* tokio::sync::RwLock is fair: waiters queue first in first out, and a guard
\* is granted at once only when nobody is queued.
Queued(r) == \E i \in 1..Len(waitq) : waitq[i] = r
AtHead(r) == IF waitq = << >> THEN TRUE ELSE Head(waitq) = r
\* A read guard granted without regard to the write guard.
ReadGrantedUnfenced(r) == AtHead(r)

\* A write guard granted without regard to the write guard of another task.
WriteGrantedUnfenced(r) == readers = {} /\ AtHead(r)

ReadGranted(r) == writer = NoOne /\ AtHead(r)
WriteGranted(r) == writer = NoOne /\ readers = {} /\ AtHead(r)
Dequeued(r) == IF waitq = << >> THEN waitq ELSE Tail(waitq)

WantsRead(r) == pc[r] \in {"ensure_read", "token_read"}
WantsWrite(r) == pc[r] \in {"ensure_write", "force_write"}

\* A read() or write() future that cannot complete at its first poll queues.
Park(r) ==
    /\ ~Queued(r)
    /\ \/ WantsRead(r) /\ ~ReadGranted(r)
       \/ WantsWrite(r) /\ ~WriteGranted(r)
    /\ waitq' = Append(waitq, r)
    /\ UNCHANGED <<now, storeVars, writer, readers, pc,
                   unauthorized_retries, header, result, outcome, histVars>>

\* ------------------------------------------------------------------- Init
\* The state connect() leaves: one exchange done, its Credentials stored.
Init ==
    /\ now = 0
    /\ \E ttl \in 0..MaxTTL :
          credentials = [access_token |-> ConnectToken,
                         expires_at |-> CheckedAdd(0, ttl)]
    /\ expires_src = ConnectToken
    /\ writer = NoOne
    /\ readers = {}
    /\ waitq = << >>
    /\ pc = [r \in Requests |-> "idle"]
    /\ unauthorized_retries = [r \in Requests |-> None]
    /\ header = [r \in Requests |-> NoToken]
    /\ result = [r \in Requests |-> NoCreds]
    /\ outcome = [r \in Requests |-> "None"]
    /\ lastStatus = [r \in Requests |-> None]
    /\ sends = [r \in Requests |-> 0]
    /\ slept = [r \in Requests |-> << >>]
    /\ fetches = [r \in Requests |-> 0]
    /\ refreshStart = [r \in Requests |-> None]
    /\ fetchedTtl = [r \in Requests |-> None]
    /\ startTok = [r \in Requests |-> NoToken]
    /\ staleTok = [r \in Requests |-> NoToken]
    /\ forced = [r \in Requests |-> 0]

\* The clock advances.
Tick ==
    /\ now < MaxTime
    /\ now' = now + 1
    /\ UNCHANGED <<storeVars, lockVars, pc, unauthorized_retries,
                   header, result, outcome, histVars>>

\* --------------------------------------------------- ensure_authenticated
\* A caller invokes request(): line 219 calls ensure_authenticated.
Start(r) ==
    /\ pc[r] = "idle"
    /\ pc' = [pc EXCEPT ![r] = "ensure_read"]
    /\ startTok' = [startTok EXCEPT ![r] =
                      IF credentials.expires_at < now THEN credentials.access_token
                      ELSE NoToken]
    /\ UNCHANGED <<now, forced, storeVars, lockVars, unauthorized_retries,
                   header, result, outcome, lastStatus, sends, slept, fetches,
                   refreshStart, fetchedTtl, staleTok>>

\* line 165: self.credentials.read().await
EnsureAcquireRead(r) ==
    /\ pc[r] = "ensure_read"
    /\ ReadGranted(r)
    /\ readers' = readers \cup {r}
    /\ waitq' = Dequeued(r)
    /\ pc' = [pc EXCEPT ![r] = "ensure_check"]
    /\ UNCHANGED <<now, storeVars, writer, unauthorized_retries,
                   header, result, outcome, histVars>>

\* The read guard kept alive into the block, as a guard bound in an `if let`
\* or `match` scrutinee would be.
EnsureCheckKeepsGuard(r) ==
    /\ pc[r] = "ensure_check"
    /\ IF Expired(credentials, now)
       THEN /\ pc' = [pc EXCEPT ![r] = "ensure_write"]
            /\ UNCHANGED <<unauthorized_retries, readers>>
       ELSE /\ pc' = [pc EXCEPT ![r] = "build"]
            /\ readers' = readers \ {r}
            /\ unauthorized_retries' = [unauthorized_retries EXCEPT ![r] = 0]
    /\ UNCHANGED <<now, storeVars, writer, waitq, header, result,
                   outcome, histVars>>

\* line 165: the test under the read guard; the guard is a temporary of the
\* condition and is dropped before the block is entered.  When the record is
\* not expired ensure_authenticated returns Ok and line 223 binds the counter.
EnsureCheck(r) ==
    /\ pc[r] = "ensure_check"
    /\ readers' = readers \ {r}
    /\ IF Expired(credentials, now)
       THEN /\ pc' = [pc EXCEPT ![r] = "ensure_write"]
            /\ UNCHANGED unauthorized_retries
       ELSE /\ pc' = [pc EXCEPT ![r] = "build"]
            /\ unauthorized_retries' = [unauthorized_retries EXCEPT ![r] = 0]
    /\ UNCHANGED <<now, storeVars, writer, waitq, header, result,
                   outcome, histVars>>

\* line 169: self.credentials.write().await
EnsureAcquireWrite(r) ==
    /\ pc[r] = "ensure_write"
    /\ WriteGranted(r)
    /\ writer' = r
    /\ waitq' = Dequeued(r)
    /\ pc' = [pc EXCEPT ![r] = "ensure_recheck"]
    /\ UNCHANGED <<now, storeVars, readers, unauthorized_retries,
                   header, result, outcome, histVars>>

\* The second test left out: whoever gets the write guard refreshes.
EnsureRecheckNoTest(r) ==
    /\ pc[r] = "ensure_recheck"
    /\ pc' = [pc EXCEPT ![r] = "fetch"]
    /\ refreshStart' = [refreshStart EXCEPT ![r] = now]
    /\ UNCHANGED <<now, forced, storeVars, lockVars, unauthorized_retries, header, result,
                   outcome, lastStatus, sends, slept, fetches, fetchedTtl, startTok, staleTok>>

\* lines 172-178: the second test, under the write guard.  Expired: call
\* refresh_authentication with the guard.  Not expired: drop the guard, return Ok.
EnsureRecheck(r) ==
    /\ pc[r] = "ensure_recheck"
    /\ IF Expired(credentials, now)
       THEN /\ pc' = [pc EXCEPT ![r] = "fetch"]
            /\ refreshStart' = [refreshStart EXCEPT ![r] = now]
            /\ UNCHANGED <<writer, unauthorized_retries>>
       ELSE /\ pc' = [pc EXCEPT ![r] = "build"]
            /\ writer' = NoOne
            /\ unauthorized_retries' = [unauthorized_retries EXCEPT ![r] = 0]
            /\ UNCHANGED refreshStart
    /\ UNCHANGED <<now, forced, storeVars, readers, waitq, header, result,
                   outcome, lastStatus, sends, slept, fetches, fetchedTtl, startTok, staleTok>>

\* ------------------------------------------------- refresh_authentication
\* A failed exchange tried again in place of returning the error.
ExchangeRetrying(r, resp) ==
    /\ pc[r] = "fetch"
    /\ fetches[r] < MAX_RETRY_COUNT + 2
    /\ fetches' = [fetches EXCEPT ![r] = @ + 1]
    /\ LET got == GetBearerToken(resp, IssuedToken(r, fetches[r] + 1), now) IN
       IF got.err = "None"
       THEN /\ result' = [result EXCEPT ![r] = got.creds]
            /\ fetchedTtl' = [fetchedTtl EXCEPT ![r] = resp.expires_in]
            /\ pc' = [pc EXCEPT ![r] = "store_expires"]
       ELSE UNCHANGED <<result, fetchedTtl, pc>>
    /\ UNCHANGED <<now, forced, storeVars, lockVars, unauthorized_retries, header, outcome,
                   lastStatus, sends, slept, refreshStart, startTok, staleTok>>

\* A failed exchange that returns its error with the write guard still held.
ExchangeFailKeepsGuard(r, resp) ==
    /\ pc[r] = "fetch"
    /\ fetches' = [fetches EXCEPT ![r] = @ + 1]
    /\ LET got == GetBearerToken(resp, IssuedToken(r, fetches[r] + 1), now) IN
       IF got.err = "None"
       THEN /\ result' = [result EXCEPT ![r] = got.creds]
            /\ fetchedTtl' = [fetchedTtl EXCEPT ![r] = resp.expires_in]
            /\ pc' = [pc EXCEPT ![r] = "store_expires"]
            /\ UNCHANGED <<writer, outcome, refreshStart, staleTok>>
       ELSE /\ UNCHANGED writer
            /\ outcome' = [outcome EXCEPT ![r] = got.err]
            /\ pc' = [pc EXCEPT ![r] = "done"]
            /\ refreshStart' = [refreshStart EXCEPT ![r] = None]
            /\ staleTok' = [staleTok EXCEPT ![r] = NoToken]
            /\ UNCHANGED <<result, fetchedTtl>>
    /\ UNCHANGED <<now, forced, storeVars, readers, waitq, unauthorized_retries, header,
                   lastStatus, sends, slept, startTok>>

\* line 194: get_bearer_token answers.  An error returns through `?`: the write
\* guard is dropped, the record is untouched and request() returns the error.
Exchange(r, resp) ==
    /\ pc[r] = "fetch"
    /\ fetches' = [fetches EXCEPT ![r] = @ + 1]
    /\ LET got == GetBearerToken(resp, IssuedToken(r, fetches[r] + 1), now) IN
       IF got.err = "None"
       THEN /\ result' = [result EXCEPT ![r] = got.creds]
            /\ fetchedTtl' = [fetchedTtl EXCEPT ![r] = resp.expires_in]
            /\ pc' = [pc EXCEPT ![r] = "store_expires"]
            /\ UNCHANGED <<writer, outcome, refreshStart, staleTok>>
       ELSE /\ writer' = NoOne
            /\ outcome' = [outcome EXCEPT ![r] = got.err]
            /\ pc' = [pc EXCEPT ![r] = "done"]
            /\ refreshStart' = [refreshStart EXCEPT ![r] = None]
            /\ staleTok' = [staleTok EXCEPT ![r] = NoToken]
            /\ UNCHANGED <<result, fetchedTtl>>
    /\ UNCHANGED <<now, forced, storeVars, readers, waitq, unauthorized_retries, header,
                   lastStatus, sends, slept, startTok>>

\* line 196: write_lock.expires_at = result.expires_at
StoreExpires(r) ==
    /\ pc[r] = "store_expires"
    /\ credentials' = [credentials EXCEPT !.expires_at = result[r].expires_at]
    /\ expires_src' = result[r].access_token
    /\ pc' = [pc EXCEPT ![r] = "store_token"]
    /\ UNCHANGED <<now, lockVars, unauthorized_retries, header,
                   result, outcome, histVars>>

\* The write guard outliving refresh_authentication, held on into the loop.
StoreTokenKeepsGuard(r) ==
    /\ pc[r] = "store_token"
    /\ credentials' = [credentials EXCEPT !.access_token = result[r].access_token]
    /\ result' = [result EXCEPT ![r] = NoCreds]
    /\ unauthorized_retries' =
          [unauthorized_retries EXCEPT ![r] = IF @ = None THEN 0 ELSE @]
    /\ pc' = [pc EXCEPT ![r] = "build"]
    /\ refreshStart' = [refreshStart EXCEPT ![r] = None]
    /\ fetchedTtl' = [fetchedTtl EXCEPT ![r] = None]
    /\ forced' = [forced EXCEPT ![r] =
                     IF unauthorized_retries[r] = None THEN @ ELSE @ + 1]
    /\ UNCHANGED <<now, expires_src, lockVars, header,
                   outcome, lastStatus, sends, slept, fetches, startTok, staleTok>>

\* lines 197-200: write_lock.access_token = result.access_token; the guard is
\* dropped on return.  Back in request(): line 223 after ensure_authenticated,
\* the top of the loop after force_refresh_authentication.
StoreToken(r) ==
    /\ pc[r] = "store_token"
    /\ credentials' = [credentials EXCEPT !.access_token = result[r].access_token]
    /\ writer' = NoOne
    /\ result' = [result EXCEPT ![r] = NoCreds]
    /\ unauthorized_retries' =
          [unauthorized_retries EXCEPT ![r] = IF @ = None THEN 0 ELSE @]
    /\ pc' = [pc EXCEPT ![r] = "build"]
    /\ refreshStart' = [refreshStart EXCEPT ![r] = None]
    /\ fetchedTtl' = [fetchedTtl EXCEPT ![r] = None]
    /\ forced' = [forced EXCEPT ![r] =
                     IF unauthorized_retries[r] = None THEN @ ELSE @ + 1]
    /\ UNCHANGED <<now, expires_src, readers, waitq, header,
                   outcome, lastStatus, sends, slept, fetches, startTok, staleTok>>

\* ------------------------------------------------------------ request loop
\* line 227: request_builder.build; an Err (a body that does not serialize)
\* returns through `?`.
Build(r, built) ==
    /\ pc[r] = "build"
    /\ IF built
       THEN /\ pc' = [pc EXCEPT ![r] = "token_read"]
            /\ UNCHANGED outcome
       ELSE /\ pc' = [pc EXCEPT ![r] = "done"]
            /\ outcome' = [outcome EXCEPT ![r] = "SerializationError"]
    /\ UNCHANGED <<now, storeVars, lockVars, unauthorized_retries,
                   header, result, histVars>>

\* line 233: self.credentials.read().await
TokenAcquireRead(r) ==
    /\ pc[r] = "token_read"
    /\ ReadGranted(r)
    /\ readers' = readers \cup {r}
    /\ waitq' = Dequeued(r)
    /\ pc' = [pc EXCEPT ![r] = "header"]
    /\ UNCHANGED <<now, storeVars, writer, unauthorized_retries,
                   header, result, outcome, histVars>>

\* The token remembered from before the force refresh put in the header.
SendRemembered(r) ==
    /\ pc[r] = "header"
    /\ header' = [header EXCEPT ![r] =
                    IF staleTok[r] # NoToken THEN staleTok[r]
                    ELSE credentials.access_token]
    /\ readers' = readers \ {r}
    /\ sends' = [sends EXCEPT ![r] = @ + 1]
    /\ pc' = [pc EXCEPT ![r] = "execute"]
    /\ UNCHANGED <<now, forced, storeVars, writer, waitq,
                   unauthorized_retries, result, outcome, lastStatus, slept,
                   fetches, refreshStart, fetchedTtl, startTok, staleTok>>

\* lines 231-237: the Authorization header takes the stored token; the read
\* guard is dropped at the end of the statement; execute sends the request.
\* (An issued token is taken to be a valid header value, so parse() succeeds.)
Send(r) ==
    /\ pc[r] = "header"
    /\ header' = [header EXCEPT ![r] = credentials.access_token]
    /\ readers' = readers \ {r}
    /\ sends' = [sends EXCEPT ![r] = @ + 1]
    /\ pc' = [pc EXCEPT ![r] = "execute"]
    /\ UNCHANGED <<now, forced, storeVars, writer, waitq,
                   unauthorized_retries, result, outcome, lastStatus, slept,
                   fetches, refreshStart, fetchedTtl, startTok, staleTok>>

\* 401 answers received so far by all calls: one per retry, one per exhaustion.
RECURSIVE Count401(_)
Count401(n) ==
    IF n = 0 THEN 0
    ELSE Count401(n - 1)
         + (IF unauthorized_retries[n] = None THEN 0 ELSE unauthorized_retries[n])
         + (IF outcome[n] = "AuthExhausted" THEN 1 ELSE 0)

\* A response step whose retry counter is one counter of the client, shared by
\* the calls in flight, instead of a local of each call.
RespondSharedCounter(r, resp) ==
    /\ pc[r] = "execute"
    /\ StatusArm(resp.status) = "unauthorized" => Count401(NumRequests) < Max401
    /\ lastStatus' = [lastStatus EXCEPT ![r] = resp.status]
    /\ header' = [header EXCEPT ![r] = NoToken]
    /\ startTok' = [startTok EXCEPT ![r] = NoToken]
    /\ staleTok' = [staleTok EXCEPT ![r] = NoToken]
    /\ IF ~resp.sent
       THEN \* line 237: execute(request).await? failed
            /\ outcome' = [outcome EXCEPT ![r] = "TransportError"]
            /\ pc' = [pc EXCEPT ![r] = "done"]
            /\ UNCHANGED unauthorized_retries
       ELSE IF StatusArm(resp.status) = "ok"
       THEN \* line 243
            /\ outcome' = [outcome EXCEPT ![r] =
                              IF resp.handler_ok THEN "Success" ELSE "DecodeError"]
            /\ pc' = [pc EXCEPT ![r] = "done"]
            /\ UNCHANGED unauthorized_retries
       ELSE IF StatusArm(resp.status) = "unauthorized"
       THEN IF Exhausted(unauthorized_retries[r])
            THEN \* lines 246-251
                 /\ outcome' = [outcome EXCEPT ![r] = "AuthExhausted"]
                 /\ pc' = [pc EXCEPT ![r] = "done"]
                 /\ UNCHANGED unauthorized_retries
            ELSE \* lines 254-258
                 /\ unauthorized_retries' =
                        [q \in Requests |->
                            IF unauthorized_retries[q] = None THEN None
                            ELSE unauthorized_retries[q] + 1]
                 /\ pc' = [pc EXCEPT ![r] =
                              IF NeedsSleep(unauthorized_retries[r] + 1)
                              THEN "sleep" ELSE "force_write"]
                 /\ UNCHANGED outcome
       ELSE \* lines 267-269
            /\ outcome' = [outcome EXCEPT ![r] = "UnsupportedStatus"]
            /\ pc' = [pc EXCEPT ![r] = "done"]
            /\ UNCHANGED unauthorized_retries
    /\ UNCHANGED <<now, forced, storeVars, lockVars, result, sends,
                   slept, fetches, refreshStart, fetchedTtl>>

\* lines 237-270: execute answers and the status decides.
Respond(r, resp) ==
    /\ pc[r] = "execute"
    /\ StatusArm(resp.status) = "unauthorized" => Count401(NumRequests) < Max401
    /\ lastStatus' = [lastStatus EXCEPT ![r] = resp.status]
    /\ header' = [header EXCEPT ![r] = NoToken]
    /\ startTok' = [startTok EXCEPT ![r] = NoToken]
    /\ staleTok' = [staleTok EXCEPT ![r] = NoToken]
    /\ IF ~resp.sent
       THEN \* line 237: execute(request).await? failed
            /\ outcome' = [outcome EXCEPT ![r] = "TransportError"]
            /\ pc' = [pc EXCEPT ![r] = "done"]
            /\ UNCHANGED unauthorized_retries
       ELSE IF StatusArm(resp.status) = "ok"
       THEN \* line 243
            /\ outcome' = [outcome EXCEPT ![r] =
                              IF resp.handler_ok THEN "Success" ELSE "DecodeError"]
            /\ pc' = [pc EXCEPT ![r] = "done"]
            /\ UNCHANGED unauthorized_retries
       ELSE IF StatusArm(resp.status) = "unauthorized"
       THEN IF Exhausted(unauthorized_retries[r])
            THEN \* lines 246-251
                 /\ outcome' = [outcome EXCEPT ![r] = "AuthExhausted"]
                 /\ pc' = [pc EXCEPT ![r] = "done"]
                 /\ UNCHANGED unauthorized_retries
            ELSE \* lines 254-258
                 /\ unauthorized_retries' = [unauthorized_retries EXCEPT ![r] = @ + 1]
                 /\ pc' = [pc EXCEPT ![r] =
                              IF NeedsSleep(unauthorized_retries[r] + 1)
                              THEN "sleep" ELSE "force_write"]
                 /\ UNCHANGED outcome
       ELSE \* lines 267-269
            /\ outcome' = [outcome EXCEPT ![r] = "UnsupportedStatus"]
            /\ pc' = [pc EXCEPT ![r] = "done"]
            /\ UNCHANGED unauthorized_retries
    /\ UNCHANGED <<now, forced, storeVars, lockVars, result, sends,
                   slept, fetches, refreshStart, fetchedTtl>>

\* A sleep in place of the force refresh instead of before it: the call goes
\* back to the top of the loop once it has slept.
SleepSkipsRefresh(r) ==
    /\ pc[r] = "sleep"
    /\ slept' = [slept EXCEPT ![r] = Append(@, SleepDuration(unauthorized_retries[r]))]
    /\ pc' = [pc EXCEPT ![r] = "build"]
    /\ UNCHANGED <<now, forced, storeVars, lockVars, unauthorized_retries,
                   header, result, outcome, lastStatus, sends, fetches,
                   refreshStart, fetchedTtl, startTok, staleTok>>

\* lines 259-261: sleep(Duration::from_millis(500 * unauthorized_retries))
Sleep(r) ==
    /\ pc[r] = "sleep"
    /\ slept' = [slept EXCEPT ![r] = Append(@, SleepDuration(unauthorized_retries[r]))]
    /\ pc' = [pc EXCEPT ![r] = "force_write"]
    /\ UNCHANGED <<now, forced, storeVars, lockVars, unauthorized_retries,
                   header, result, outcome, lastStatus, sends, fetches,
                   refreshStart, fetchedTtl, startTok, staleTok>>

\* A force refresh that tests expires_at as ensure_authenticated does and
\* returns without an exchange when the record is not expired.
ForceAcquireWriteTested(r) ==
    /\ pc[r] = "force_write"
    /\ WriteGranted(r)
    /\ waitq' = Dequeued(r)
    /\ staleTok' = [staleTok EXCEPT ![r] = credentials.access_token]
    /\ IF Expired(credentials, now)
       THEN /\ writer' = r
            /\ refreshStart' = [refreshStart EXCEPT ![r] = now]
            /\ pc' = [pc EXCEPT ![r] = "fetch"]
       ELSE /\ pc' = [pc EXCEPT ![r] = "build"]
            /\ UNCHANGED <<writer, refreshStart>>
    /\ UNCHANGED <<now, forced, storeVars, readers, unauthorized_retries,
                   header, result, outcome, lastStatus, sends, slept, fetches,
                   fetchedTtl, startTok>>

\* lines 184-185: force_refresh_authentication takes the write guard and calls
\* refresh_authentication, without any test of expires_at.
ForceAcquireWrite(r) ==
    /\ pc[r] = "force_write"
    /\ WriteGranted(r)
    /\ writer' = r
    /\ waitq' = Dequeued(r)
    /\ refreshStart' = [refreshStart EXCEPT ![r] = now]
    /\ staleTok' = [staleTok EXCEPT ![r] = credentials.access_token]
    /\ pc' = [pc EXCEPT ![r] = "fetch"]
    /\ UNCHANGED <<now, forced, storeVars, readers, unauthorized_retries,
                   header, result, outcome, lastStatus, sends, slept, fetches,
                   fetchedTtl, startTok>>

\* ------------------------------------------------------------------- Next
Next ==
    \/ Tick
    \/ \E r \in Requests :
          \/ Start(r)
          \/ Park(r)
          \/ EnsureAcquireRead(r)
          \/ EnsureCheck(r)
          \/ EnsureAcquireWrite(r)
          \/ EnsureRecheck(r)
          \/ \E resp \in TokenResponses : Exchange(r, resp)
          \/ StoreExpires(r)
          \/ StoreToken(r)
          \/ \E built \in BOOLEAN : Build(r, built)
          \/ TokenAcquireRead(r)
          \/ Send(r)
          \/ \E resp \in HttpResponses : Respond(r, resp)
          \/ Sleep(r)
          \/ ForceAcquireWrite(r)

Spec == Init /\ [][Next]_vars

\* ------------------------------------------------ restricted environments
\* Token exchanges issued since connect() returned.
RECURSIVE SumFetches(_)
SumFetches(n) == IF n = 0 THEN 0 ELSE SumFetches(n - 1) + fetches[n]
ExchangesSinceConnect == SumFetches(NumRequests)

\* Calls are issued only while the stored token is expired; the token endpoint
\* succeeds with a TTL that outlasts the clock; the protected endpoint
\* answers 200.
NextSingleFlight ==
    \/ Tick
    \/ \E r \in Requests :
          \/ Expired(credentials, now) /\ Start(r)
          \/ Park(r)
          \/ EnsureAcquireRead(r)
          \/ EnsureCheck(r)
          \/ EnsureAcquireWrite(r)
          \/ EnsureRecheck(r)
          \/ \E resp \in TokenResponses :
                /\ resp.ok
                /\ resp.expires_in \in 0..MaxTTL
                /\ now + resp.expires_in >= MaxTime
                /\ Exchange(r, resp)
          \/ StoreExpires(r)
          \/ StoreToken(r)
          \/ Build(r, TRUE)
          \/ TokenAcquireRead(r)
          \/ Send(r)
          \/ \E resp \in HttpResponses :
                /\ resp.sent
                /\ resp.status = OK
                /\ Respond(r, resp)

SpecSingleFlight == Init /\ [][NextSingleFlight]_vars

\* ------------------------------------------------------------------ claims
Done(r) == pc[r] = "done"

\* C1: retry ceiling.  One call never sends more than 1 + MAX_RETRY_COUNT = 4
\* times; it fails with AuthExhausted only once 4 sends were answered 401; and
\* the 401 that answers the 4th send ends the call with AuthExhausted at once,
\* so a call that is answered 401 every time sends exactly 4 times.
RetryCeiling ==
    \A r \in Requests :
        /\ sends[r] <= 4
        /\ outcome[r] = "AuthExhausted" =>
              /\ Done(r)
              /\ sends[r] = 4
              /\ lastStatus[r] = UNAUTHORIZED
              /\ unauthorized_retries[r] = 3
        /\ (sends[r] = 4 /\ pc[r] # "execute" /\ lastStatus[r] = UNAUTHORIZED) =>
              outcome[r] = "AuthExhausted"
        /\ (pc[r] = "execute" /\ unauthorized_retries[r] = sends[r] - 1) \/ pc[r] # "execute"

RetryCeilingWitness ==
    \E r \in Requests : outcome[r] = "AuthExhausted" /\ sends[r] = 4

\* C2: backoff schedule.  Before retry 1 the call does not sleep, before retry 2
\* it sleeps 1000 ms, before retry 3 it sleeps 1500 ms and nothing else; a call
\* that used up its retries has slept 2500 ms in all.
ExpectedSleeps(k) ==
    CASE k <= 1 -> << >>
      [] k = 2 -> <<1000>>
      [] OTHER -> <<1000, 1500>>

RECURSIVE SumSeq(_)
SumSeq(q) == IF q = << >> THEN 0 ELSE Head(q) + SumSeq(Tail(q))

BackoffSchedule ==
    \A r \in Requests :
        /\ unauthorized_retries[r] = None => slept[r] = << >>
        /\ unauthorized_retries[r] # None =>
              IF pc[r] = "sleep"
              THEN /\ unauthorized_retries[r] > 1
                   /\ slept[r] = ExpectedSleeps(unauthorized_retries[r] - 1)
              ELSE slept[r] = ExpectedSleeps(unauthorized_retries[r])
        /\ outcome[r] = "AuthExhausted" => SumSeq(slept[r]) = 2500

BackoffScheduleWitness ==
    \E r \in Requests :
        /\ pc[r] = "execute"
        /\ unauthorized_retries[r] = 3
        /\ slept[r] = <<1000, 1500>>

\* C3: single-flight refresh.  When calls are issued while the stored token is
\* expired, the exchange succeeds with a TTL that keeps the new token valid and
\* the protected endpoint answers 200, one token exchange is issued in all,
\* however many calls there are: none before the first call leaves
\* ensure_authenticated, and never a second.
SingleFlight ==
    /\ ExchangesSinceConnect <= 1
    /\ (\E r \in Requests : unauthorized_retries[r] # None) => ExchangesSinceConnect = 1

\* A second caller holds the write guard for its re-check after the first fetched.
SingleFlightWitness ==
    \E r1, r2 \in Requests :
        /\ r1 # r2
        /\ pc[r1] = "ensure_recheck"
        /\ fetches[r2] = 1
        /\ unauthorized_retries[r2] # None
        /\ ~Expired(credentials, now)

\* C4: expiry-triggered refresh.  When the stored expires_at is already in the
\* past as a call starts, the first send of that call carries a token that an
\* exchange issued and that is not the expired token the call found.
ExpiryTriggeredRefresh ==
    \A r \in Requests :
        (startTok[r] # NoToken /\ pc[r] = "execute" /\ sends[r] = 1) =>
            /\ header[r] # startTok[r]
            /\ header[r] # NoToken
            /\ ExchangesSinceConnect >= 1

ExpiryTriggeredRefreshWitness ==
    \E r \in Requests :
        /\ startTok[r] = ConnectToken
        /\ pc[r] = "execute"
        /\ sends[r] = 1
        /\ header[r] = IssuedToken(r, 1)

\* C5: immediate hard failure.  A response whose status is neither 200 nor 401
\* ends the call with UnsupportedStatus in that very step, which leaves the
\* Credentials record, the lock and the call's counts of sends, sleeps and
\* exchanges as they were; afterwards the call does nothing more.
ImmediateHardFailure ==
    [][\A r \in Requests :
          /\ (pc[r] = "execute" /\ lastStatus'[r] \notin {None, OK, UNAUTHORIZED}) =>
                /\ outcome'[r] = "UnsupportedStatus"
                /\ pc'[r] = "done"
                /\ credentials' = credentials
                /\ <<writer, readers, waitq>>' = <<writer, readers, waitq>>
                /\ sends'[r] = sends[r]
                /\ slept'[r] = slept[r]
                /\ fetches'[r] = fetches[r]
          /\ outcome[r] = "UnsupportedStatus" =>
                /\ pc'[r] = "done"
                /\ outcome'[r] = outcome[r]
                /\ sends'[r] = sends[r]
                /\ slept'[r] = slept[r]
                /\ fetches'[r] = fetches[r]
                /\ writer' # r
                /\ r \notin readers'
                /\ ~Queued(r)']_vars

\* An unsupported status on a retry, after two 401 answers.
ImmediateHardFailureWitness ==
    \E r \in Requests :
        /\ outcome[r] = "UnsupportedStatus"
        /\ lastStatus[r] = 500
        /\ sends[r] = 3

\* C6: only a 200 yields success.  A call returns Ok only when its latest send
\* was answered 200; a 200 on any attempt ends the call in that step with the
\* handler's result, and the call sends, sleeps and exchanges no more.
OnlyOkSucceeds ==
    [][\A r \in Requests :
          /\ outcome'[r] = "Success" => lastStatus'[r] = OK /\ pc'[r] = "done"
          /\ (pc[r] = "execute" /\ lastStatus'[r] = OK) =>
                /\ outcome'[r] \in {"Success", "DecodeError"}
                /\ pc'[r] = "done"
                /\ sends'[r] = sends[r]
                /\ slept'[r] = slept[r]
                /\ fetches'[r] = fetches[r]
          /\ lastStatus[r] = OK =>
                /\ pc'[r] = "done"
                /\ outcome'[r] = outcome[r]
                /\ lastStatus'[r] = OK
                /\ sends'[r] = sends[r]
                /\ slept'[r] = slept[r]
                /\ fetches'[r] = fetches[r]]_vars

\* A success on the last attempt the budget allows.
OnlyOkSucceedsWitness ==
    \E r \in Requests :
        /\ outcome[r] = "Success"
        /\ unauthorized_retries[r] = 3
        /\ sends[r] = 4

\* C7: a failed token exchange is fatal.  The step in which an exchange fails
\* ends the call with that error and releases the write guard; the call then
\* issues no exchange and no send.  A failure inside ensure_authenticated
\* leaves the call with no send at all, a failure after the k-th 401 with k.
FetchFailureFatal ==
    [][\A r \in Requests :
          /\ (pc[r] = "fetch" /\ fetches'[r] = fetches[r] + 1
                /\ result'[r] = NoCreds) =>
                /\ outcome'[r] \in FetchErrors
                /\ pc'[r] = "done"
                /\ writer' = NoOne
                /\ sends'[r] = sends[r]
                /\ sends[r] = (IF unauthorized_retries[r] = None
                               THEN 0 ELSE unauthorized_retries[r])
          /\ outcome[r] \in FetchErrors =>
                /\ pc'[r] = "done"
                /\ outcome'[r] = outcome[r]
                /\ sends'[r] = sends[r]
                /\ fetches'[r] = fetches[r]
                /\ writer' # r]_vars

\* One call failed in ensure_authenticated, another after a 401.
FetchFailureFatalWitness ==
    \E r1, r2 \in Requests :
        /\ outcome[r1] \in FetchErrors
        /\ sends[r1] = 0
        /\ outcome[r2] \in FetchErrors
        /\ sends[r2] >= 1

\* C8, as claimed: freshness monotonicity.  Once a refresh has stored its
\* expires_at, that value is strictly greater than the instant observed just
\* before the refresh began, whatever TTL the token endpoint returned.
FreshnessStrict ==
    \A r \in Requests :
        pc[r] = "store_token" => credentials.expires_at > refreshStart[r]

\* C8, amended: the stored expires_at is never less than the instant observed
\* just before the refresh began plus the TTL returned, so it is not before
\* that instant, and strictly after it whenever the TTL is positive.
FreshnessMonotone ==
    \A r \in Requests :
        pc[r] = "store_token" =>
            /\ credentials.expires_at >= refreshStart[r] + fetchedTtl[r]
            /\ credentials.expires_at >= refreshStart[r]
            /\ fetchedTtl[r] > 0 => credentials.expires_at > refreshStart[r]

\* A refresh with a TTL of zero during which the clock did not move.
FreshnessMonotoneWitness ==
    \E r \in Requests :
        /\ pc[r] = "store_token"
        /\ fetchedTtl[r] = 0
        /\ credentials.expires_at = refreshStart[r]

\* C9: no torn reads.  A read guard is held only while no write guard is, and
\* whenever no write guard is held the record's access_token and expires_at
\* come from the same token exchange.
NoTornReads ==
    /\ readers # {} => writer = NoOne
    /\ writer = NoOne => credentials.access_token = expires_src

\* A reader holds its guard on a refreshed record while another call, having
\* refreshed before, waits for the write guard.
NoTornReadsWitness ==
    \E r1, r2 \in Requests :
        /\ r1 \in readers
        /\ credentials.access_token # ConnectToken
        /\ pc[r2] = "force_write"

\* C10: no send with an expired token.  In the step that issues a send, the
\* record the Authorization header is read from has an expires_at that is not
\* in the past.
NoExpiredSend ==
    [][\A r \in Requests :
          sends'[r] = sends[r] + 1 => ~(credentials.expires_at < now)]_vars

\* ------------------------------------------------------------- scheduling
\* Every step of call r after its start.
Proceed(r) ==
    \/ Park(r)
    \/ EnsureAcquireRead(r)
    \/ EnsureCheck(r)
    \/ EnsureAcquireWrite(r)
    \/ EnsureRecheck(r)
    \/ \E resp \in TokenResponses : Exchange(r, resp)
    \/ StoreExpires(r)
    \/ StoreToken(r)
    \/ \E built \in BOOLEAN : Build(r, built)
    \/ TokenAcquireRead(r)
    \/ Send(r)
    \/ \E resp \in HttpResponses : Respond(r, resp)
    \/ Sleep(r)
    \/ ForceAcquireWrite(r)

\* The tokio runtime polls every task that can make progress, the RwLock
\* grants its guards in queue order, every network call answers and every
\* sleep ends: a call that can take a step eventually takes one.  Nothing
\* obliges a caller to issue a call, nor the clock to advance.
SpecFair == Spec /\ \A r \in Requests : WF_vars(Proceed(r))

FinalOutcomes ==
    {"Success", "DecodeError", "TransportError", "AuthExhausted",
     "UnsupportedStatus", "SerializationError"} \cup FetchErrors

\* C11: every call ends in exactly one outcome.  Under fair scheduling every
\* call that was issued, alone or beside others, eventually returns; a call has
\* an outcome exactly when it has returned, that outcome is Success or one of
\* the errors, and it never changes afterwards.
EveryRequestEnds ==
    /\ \A r \in Requests : (pc[r] # "idle") ~> Done(r)
    /\ [](\A r \in Requests :
             /\ Done(r) <=> outcome[r] # "None"
             /\ outcome[r] \in FinalOutcomes \cup {"None"})
    /\ [][\A r \in Requests : outcome[r] # "None" => outcome'[r] = outcome[r]]_vars

\* All calls have returned, one exhausted and one successful after a refresh
\* in ensure_authenticated.
EveryRequestEndsWitness ==
    /\ \A r \in Requests : Done(r)
    /\ \E r1, r2 \in Requests :
          /\ outcome[r1] = "AuthExhausted"
          /\ outcome[r2] = "Success"
          /\ fetches[r2] = 1

\* C12: exclusive access is held only for fetch-and-swap.  A call holds the
\* write guard exactly from its acquisition until the re-check found the record
\* valid, the exchange failed or the record was replaced; it holds a read guard
\* exactly while it reads one field.  Building the request, awaiting the
\* protected endpoint (and handling its response), sleeping and having returned,
\* it holds neither.
GuardsOnlyForFetchAndSwap ==
    \A r \in Requests :
        /\ writer = r <=>
              pc[r] \in {"ensure_recheck", "fetch", "store_expires", "store_token"}
        /\ r \in readers <=> pc[r] \in {"ensure_check", "header"}
        /\ pc[r] \in {"idle", "build", "execute", "sleep", "done"} =>
              /\ writer # r
              /\ r \notin readers
              /\ ~Queued(r)

\* One call sleeps in its backoff while another holds the write guard for its
\* exchange.
GuardsOnlyForFetchAndSwapWitness ==
    \E r1, r2 \in Requests :
        /\ pc[r1] = "sleep"
        /\ pc[r2] = "fetch"
        /\ writer = r2

\* C13: the token is read fresh for every send.  The step that issues a send
\* copies the access_token the store holds in that step, read under a read
\* guard with no write guard alive; so the send that follows the call's own
\* successful force refresh never carries the token the store held when that
\* refresh began.
TokenReadFresh ==
    [][\A r \in Requests :
          sends'[r] = sends[r] + 1 =>
              /\ header'[r] = credentials.access_token
              /\ r \in readers
              /\ writer = NoOne
              /\ staleTok[r] # NoToken => header'[r] # staleTok[r]]_vars

\* The send after a force refresh carries the token of another call's later
\* refresh.
TokenReadFreshWitness ==
    \E r1, r2 \in Requests :
        /\ r1 # r2
        /\ pc[r1] = "execute"
        /\ staleTok[r1] # NoToken
        /\ fetches[r1] >= 1
        /\ header[r1] = IssuedToken(r2, fetches[r2])
        /\ fetches[r2] >= 1

\* C14: force refresh is unconditional.  A call that leaves its wait for the
\* write guard in force_refresh_authentication holds the guard and is in its
\* exchange, whatever expires_at says and whoever replaced the record
\* meanwhile, and leaves that exchange having issued exactly one; so the
\* exchanges of a call count its force refreshes, and K calls answered 401
\* issue K exchanges.
ForcedIssued(r) ==
    IF unauthorized_retries[r] = None THEN 0
    ELSE IF pc[r] \in {"sleep", "force_write", "fetch"}
         THEN unauthorized_retries[r] - 1
    ELSE unauthorized_retries[r]

RECURSIVE SumForced(_)
SumForced(n) == IF n = 0 THEN 0 ELSE SumForced(n - 1) + ForcedIssued(n)

ForceRefreshUnconditional ==
    [][\A r \in Requests :
          /\ (pc[r] = "force_write" /\ pc'[r] # "force_write") =>
                /\ pc'[r] = "fetch"
                /\ writer' = r
                /\ credentials' = credentials
          /\ (pc[r] = "fetch" /\ pc'[r] # "fetch") => fetches'[r] = fetches[r] + 1
          /\ fetches'[r] # fetches[r] => pc[r] = "fetch"
          /\ fetches[r] \in {ForcedIssued(r), ForcedIssued(r) + 1}
          /\ ExchangesSinceConnect >= SumForced(NumRequests)]_vars

\* A call is in the exchange of its force refresh although the record, replaced
\* by another call's force refresh while it waited, is not expired.
ForceRefreshUnconditionalWitness ==
    \E r1, r2 \in Requests :
        /\ r1 # r2
        /\ pc[r1] = "fetch"
        /\ unauthorized_retries[r1] = 1
        /\ unauthorized_retries[r2] = 1
        /\ staleTok[r1] = IssuedToken(r2, 1)
        /\ ~(credentials.expires_at < now)

\* C15: ensure_valid is a no-op on a valid record.  When expires_at >= now at
\* the test under the read guard, or at the re-check under the write guard,
\* the call leaves ensure_authenticated for the loop in that step: it issues no
\* exchange, has no error, holds no guard and the record is as it was.
EnsureNoOpWhenValid ==
    [][\A r \in Requests :
          (/\ pc[r] \in {"ensure_check", "ensure_recheck"}
           /\ credentials.expires_at >= now
           /\ pc'[r] # pc[r]) =>
                /\ pc'[r] = "build"
                /\ unauthorized_retries'[r] = 0
                /\ outcome'[r] = "None"
                /\ fetches'[r] = fetches[r]
                /\ credentials' = credentials
                /\ expires_src' = expires_src
                /\ writer' = NoOne
                /\ r \notin readers']_vars

\* A call that found the record expired at its start is in the loop without
\* having issued an exchange: the record was valid at one of its two tests.
EnsureNoOpWhenValidWitness ==
    \E r \in Requests :
        /\ pc[r] = "build"
        /\ startTok[r] # NoToken
        /\ unauthorized_retries[r] = 0
        /\ fetches[r] = 0
        /\ credentials.expires_at = now

\* C16: the retry counter is per request and bounded.  It is unbound until the
\* call enters the loop, starts at 0, stays within 0..MAX_RETRY_COUNT, and
\* changes only by one, in a step of its own call that handles a 401 response
\* to that call; a step of another call leaves it alone.
RetryCounterPerRequest ==
    [][\A r \in Requests :
          /\ unauthorized_retries[r] \in {None} \cup (0 .. MAX_RETRY_COUNT)
          /\ unauthorized_retries[r] = None => sends[r] = 0
          /\ unauthorized_retries'[r] # unauthorized_retries[r] =>
                /\ pc'[r] # pc[r]
                /\ \A q \in Requests \ {r} :
                      unauthorized_retries'[q] = unauthorized_retries[q]
                /\ \/ /\ unauthorized_retries[r] = None
                      /\ unauthorized_retries'[r] = 0
                      /\ pc'[r] = "build"
                   \/ /\ unauthorized_retries[r] # None
                      /\ unauthorized_retries'[r] = unauthorized_retries[r] + 1
                      /\ pc[r] = "execute"
                      /\ lastStatus'[r] = UNAUTHORIZED]_vars

\* One call has used all its retries while the other, sent and awaiting its
\* response, still has all of its own.
RetryCounterPerRequestWitness ==
    \E r1, r2 \in Requests :
        /\ unauthorized_retries[r1] = MAX_RETRY_COUNT
        /\ pc[r1] = "execute"
        /\ unauthorized_retries[r2] = 0
        /\ pc[r2] = "execute"

\* C17: the order of steps on the unauthorized path.  A 401 below the ceiling
\* increments the counter, then (only if the counter exceeds 1) the call
\* sleeps, then it force-refreshes, then it sends again.  Every send but the
\* first follows exactly one force refresh of the same call that stored its
\* token since the previous send, and the sleep of a retry is over before the
\* call asks for the write guard.
InForceRefresh(r) ==
    /\ unauthorized_retries[r] # None
    /\ pc[r] \in {"force_write", "fetch", "store_expires", "store_token"}

SleepsBefore(k) == IF k > 1 THEN k - 1 ELSE 0

UnauthorizedPathOrder ==
    [][\A r \in Requests :
          /\ pc[r] \in {"build", "token_read", "header"} =>
                /\ sends[r] = unauthorized_retries[r]
                /\ forced[r] = unauthorized_retries[r]
                /\ Len(slept[r]) = SleepsBefore(unauthorized_retries[r])
          /\ pc[r] = "execute" =>
                /\ sends[r] = unauthorized_retries[r] + 1
                /\ forced[r] = unauthorized_retries[r]
          /\ pc[r] = "sleep" =>
                /\ unauthorized_retries[r] > 1
                /\ sends[r] = unauthorized_retries[r]
                /\ forced[r] = unauthorized_retries[r] - 1
                /\ Len(slept[r]) = SleepsBefore(unauthorized_retries[r]) - 1
                /\ writer # r
                /\ ~Queued(r)
          /\ InForceRefresh(r) =>
                /\ sends[r] = unauthorized_retries[r]
                /\ forced[r] = unauthorized_retries[r] - 1
                /\ Len(slept[r]) = SleepsBefore(unauthorized_retries[r])
          /\ (/\ unauthorized_retries[r] # None
              /\ unauthorized_retries'[r] # unauthorized_retries[r]) =>
                pc'[r] = IF unauthorized_retries'[r] > 1 THEN "sleep" ELSE "force_write"
          /\ (pc[r] = "sleep" /\ pc'[r] # "sleep") => pc'[r] = "force_write"
          /\ sends'[r] # sends[r] =>
                /\ sends'[r] = sends[r] + 1
                /\ forced[r] = sends[r]
          /\ forced'[r] # forced[r] =>
                /\ forced'[r] = forced[r] + 1
                /\ forced[r] = sends[r] - 1
                /\ pc[r] = "store_token"
                /\ pc'[r] = "build"]_vars

\* The third send of a call is in flight: two force refreshes of the call
\* stored a token and the call slept once, before the second.
UnauthorizedPathOrderWitness ==
    \E r \in Requests :
        /\ pc[r] = "execute"
        /\ sends[r] = 3
        /\ forced[r] = 2
        /\ slept[r] = <<SleepDuration(2)>>

\* C18: exhaustion causes no token-endpoint traffic.  A 401 received with the
\* counter at MAX_RETRY_COUNT ends the call with AuthExhausted in that step,
\* with no exchange, no sleep, no lock traffic and the record untouched.  A
\* call force-refreshes at most MAX_RETRY_COUNT times and issues at most
\* MAX_RETRY_COUNT + 1 exchanges; one that ends with AuthExhausted was sent
\* MAX_RETRY_COUNT + 1 times and force-refreshed exactly MAX_RETRY_COUNT times.
ExhaustionIsSilent ==
    [][\A r \in Requests :
          /\ forced[r] <= MAX_RETRY_COUNT
          /\ fetches[r] <= MAX_RETRY_COUNT + 1
          /\ outcome[r] = "AuthExhausted" =>
                /\ forced[r] = MAX_RETRY_COUNT
                /\ sends[r] = MAX_RETRY_COUNT + 1
                /\ Len(slept[r]) = MAX_RETRY_COUNT - 1
          /\ (/\ pc[r] = "execute"
              /\ pc'[r] # "execute"
              /\ lastStatus'[r] = UNAUTHORIZED
              /\ outcome'[r] # "TransportError"
              /\ unauthorized_retries[r] = MAX_RETRY_COUNT) =>
                /\ outcome'[r] = "AuthExhausted"
                /\ pc'[r] = "done"
                /\ fetches' = fetches
                /\ forced' = forced
                /\ slept' = slept
                /\ UNCHANGED <<credentials, expires_src, writer, readers, waitq>>]_vars

\* A call ended with AuthExhausted after four exchanges: the one of
\* ensure_authenticated and three force refreshes.
ExhaustionIsSilentWitness ==
    \E r \in Requests :
        /\ outcome[r] = "AuthExhausted"
        /\ fetches[r] = MAX_RETRY_COUNT + 1
        /\ forced[r] = MAX_RETRY_COUNT

\* C19: refreshes are serialized.  A call in its exchange or in the two field
\* writes holds the write guard, so at most one exchange is in flight; no read
\* guard is held or granted while one is; and the record changes only in a
\* step of the call that holds the write guard, at one of its two writes.
ExchangeInFlight(r) == pc[r] = "fetch"
Refreshing(r) == pc[r] \in {"fetch", "store_expires", "store_token"}

RefreshesSerialized ==
    [][/\ \A r \in Requests : Refreshing(r) => writer = r
       /\ Cardinality({r \in Requests : Refreshing(r)}) <= 1
       /\ (\E r \in Requests : ExchangeInFlight(r)) => readers = {}
       /\ readers' # readers =>
             /\ ~(\E r \in Requests : ExchangeInFlight(r))
             /\ ~(\E r \in Requests : pc'[r] = "fetch")
       /\ <<credentials, expires_src>>' # <<credentials, expires_src>> =>
             /\ writer \in Requests
             /\ pc[writer] \in {"store_expires", "store_token"}
             /\ pc'[writer] # pc[writer]
             /\ \A q \in Requests \ {writer} : pc'[q] = pc[q]]_vars

\* One call is in the exchange of its force refresh while the other, with a
\* request built, is queued for the read guard of line 233.
RefreshesSerializedWitness ==
    \E r1, r2 \in Requests :
        /\ ExchangeInFlight(r1)
        /\ unauthorized_retries[r1] >= 1
        /\ pc[r2] = "token_read"
        /\ Queued(r2)

\* C20: a failed refresh changes nothing and blocks nobody.  The step in which
\* an exchange fails leaves access_token and expires_at as they were and
\* releases the write guard, with no guard left on the lock, so that the first
\* queued task can be granted its guard; a call that finds the record still
\* expired at its re-check under the write guard goes on to its own exchange.
FailedRefreshHarmless ==
    [][/\ \A r \in Requests :
             /\ (pc[r] = "fetch" /\ outcome'[r] \in FetchErrors) =>
                   /\ writer = r
                   /\ credentials' = credentials
                   /\ expires_src' = expires_src
                   /\ writer' = NoOne
                   /\ readers' = {}
                   /\ waitq' = waitq
                   /\ pc'[r] = "done"
             /\ (/\ pc[r] = "ensure_recheck"
                 /\ credentials.expires_at < now
                 /\ pc'[r] # pc[r]) =>
                   /\ pc'[r] = "fetch"
                   /\ writer' = r
                   /\ outcome'[r] = "None"
             /\ Done(r) => writer # r /\ r \notin readers /\ ~Queued(r)
       /\ (writer = NoOne /\ readers = {} /\ waitq # << >>) =>
             \/ WantsWrite(Head(waitq)) /\ WriteGranted(Head(waitq))
             \/ WantsRead(Head(waitq)) /\ ReadGranted(Head(waitq))]_vars

\* The exchange of one call failed in ensure_authenticated, the record is the
\* one of construction, and the other call, which started on that expired
\* record, is in its own exchange.
FailedRefreshHarmlessWitness ==
    \E r1, r2 \in Requests :
        /\ outcome[r1] \in FetchErrors
        /\ unauthorized_retries[r1] = None
        /\ pc[r2] = "fetch"
        /\ unauthorized_retries[r2] = None
        /\ startTok[r2] = ConnectToken
        /\ credentials.access_token = ConnectToken
        /\ credentials.expires_at < now

====
